---- MODULE Spec2Model ----
(***************************************************************************)
(* Model of apps/playwright-service-ts/api.ts: the page semaphore, the     *)
(* /scrape handler (session open, navigation, action list, top-level       *)
(* screenshot, response, teardown) and executeActions.                     *)
(*                                                                         *)
(* JavaScript runs the handlers on one thread: the code between two awaits *)
(* is one atomic step.  Every action below is one resumption of a handler: *)
(* an awaited browser call settles (resolves or rejects) and the handler   *)
(* runs up to its next await.  The browser is an external capability, so   *)
(* every awaited browser call may reject.                                  *)
(*                                                                         *)
(* Before any request has arrived, the start-up hook of app.listen has     *)
(* either launched the browser (EngineReady) or is still launching it       *)
(* (EngineStarting).                                                        *)
(***************************************************************************)
EXTENDS Integers, Sequences, FiniteSets, TLC

\* ------------------------------------------------------------- bounds
NumReq == 3              \* /scrape requests that may arrive
MaxActs == 2             \* longest action list
MAX_CONCURRENT_PAGES == 1 \* the semaphore's capacity
MaxMatches == 3          \* most elements matching a click selector

Reqs == 1..NumReq

\* ------------------------------------------------------------- inputs
KnownKinds ==
    {"wait", "click", "screenshot", "write", "press", "scroll", "scrape",
     "executeJavascript", "pdf"}

\* "hover" stands for any tag outside the Action union.
AllKinds == KnownKinds \cup {"hover"}

Action(k) == [type |-> k]

RECURSIVE ActionLists(_)
ActionLists(n) ==
    IF n = 0 THEN {<<>>}
    ELSE LET shorter == ActionLists(n - 1)
         IN  shorter \cup
             {Append(l, Action(k)) : l \in {s \in shorter : Len(s) = n - 1},
                                     k \in AllKinds}

\* The body of a /scrape request (UrlModel), with the handler's defaults
\* applied.  url is "" (missing), "nourl" (not an absolute URL) or an
\* absolute URL.
UrlModel(u, h, w, c, a, s, f) ==
    [url |-> u, headers |-> h, wait_after_load |-> w, check_selector |-> c,
     actions |-> a, screenshot |-> s, full_page_screenshot |-> f]

NoRequest == UrlModel("", FALSE, 0, FALSE, <<>>, FALSE, FALSE)

PlainRequest == UrlModel("http://a/", FALSE, 0, FALSE, <<>>, FALSE, FALSE)

\* Mutant: any non-empty string passes.
isValidUrlNonEmpty(urlString) == urlString # ""

\* new URL(urlString) does not throw.
isValidUrl(urlString) == urlString \notin {"", "nourl"}

\* -------------------------------------------------------------- state
VARIABLES
    BLOCK_MEDIA,      \* the process's BLOCK_MEDIA setting (never changes)
    permits,          \* Semaphore.permits
    queue,            \* Semaphore.queue: the waiters' resolve callbacks
    body,             \* req.body of each request
    targetStatus,     \* the status the target page answers with (never changes)
    targetTypes,      \* the content types the target may answer with (never changes)
    pc,               \* where each handler is suspended
    requestContext,   \* the handler's requestContext is non-null
    page,             \* the handler's page is non-null
    response,         \* what page.goto returned: "unset", "null", or a response,
                      \* named by its content-type header: "html", "json"
                      \* (contains application/json), "plain" (contains
                      \* text/plain), "none" (no such header)
    i,                \* executeActions' loop index (1-based)
    actionResults,    \* <<>> (undefined) or <<ActionResults>>
    screenshotData,   \* <<>> (undefined) or <<screenshot>>
    result,           \* <<>> or <<what scrapePage returned>>
    res,              \* the HTTP response sent
    contexts,         \* browser side: each request's context
    pages,            \* browser side: each request's page
    holds,            \* the request has been granted a permit and not released it
    fault,            \* the part of the handler whose fault reached its catch
    tdFault,          \* a teardown step of the handler faulted
    trace,            \* begin/end events of the request's actions
    faulted,          \* the actions (indices) whose fault was caught
    browser,          \* the engine `browser` refers to; 0 is undefined
    engines,          \* the engines chromium.launch has started
    hook,             \* the start-up hook: "launching", "ready", "crashed"
    health,           \* the /health probe: where it is, its session, its answer
    routes,           \* the route handlers installed on each request's context,
                      \* in the order of their registration
    intercepted,      \* <<>> or <<the last request a page made, and its fate>>
    actions,          \* executeActions in detail: the action list it is called with
    timeout,          \* the timeout of the request it serves
    checkSelector,    \* the required selector of that request, if any
    matching,         \* the elements of the page matching the selector of
                      \* the click actions, in document order
    exec              \* where the interpreter is, and what it has done

constVars == <<BLOCK_MEDIA, body, targetStatus, targetTypes>>
semVars == <<permits, queue>>
handlerVars ==
    <<requestContext, page, response, i, actionResults, screenshotData, result>>
browserVars == <<contexts, pages>>
ghostVars == <<holds, fault, tdFault, trace, faulted>>
engineVars == <<browser, engines, hook, health>>
netVars == <<routes, intercepted>>
actVars == <<actions, timeout, checkSelector, matching, exec>>
vars == <<BLOCK_MEDIA, permits, queue, body, targetStatus, targetTypes, pc, requestContext,
          page, response, i, actionResults, screenshotData, result, res,
          contexts, pages, holds, fault, tdFault, trace, faulted, browser,
          engines, hook, health, routes, intercepted, actions, timeout,
          checkSelector, matching, exec>>

\* An HTTP response: its status, and the fields of the success body that
\* may be absent (<<>>) or present (<<value>>).  pageStatusCode, when
\* present, is <<>> (null) or <<code>>.
NoResponse ==
    [status |-> 0, content |-> <<>>, pageStatusCode |-> <<>>,
     contentType |-> <<>>, pageError |-> <<>>, screenshot |-> <<>>,
     actions |-> <<>>]

ErrorResponse(code) == [NoResponse EXCEPT !.status = code]

EmptyResults ==
    [screenshots |-> <<>>, scrapes |-> <<>>, javascriptReturns |-> <<>>,
     pdfs |-> <<>>]

\* No request has arrived; those of `arriving` will.
InitRequests(arriving) ==
    /\ permits = MAX_CONCURRENT_PAGES
    /\ queue = <<>>
    /\ pc = [r \in Reqs |-> IF r \in arriving THEN "idle" ELSE "absent"]
    /\ requestContext = [r \in Reqs |-> FALSE]
    /\ page = [r \in Reqs |-> FALSE]
    /\ response = [r \in Reqs |-> "unset"]
    /\ i = [r \in Reqs |-> 0]
    /\ actionResults = [r \in Reqs |-> <<>>]
    /\ screenshotData = [r \in Reqs |-> <<>>]
    /\ result = [r \in Reqs |-> <<>>]
    /\ res = [r \in Reqs |-> NoResponse]
    /\ contexts = [r \in Reqs |-> "none"]
    /\ pages = [r \in Reqs |-> "none"]
    /\ holds = [r \in Reqs |-> FALSE]
    /\ fault = [r \in Reqs |-> "none"]
    /\ tdFault = [r \in Reqs |-> FALSE]
    /\ trace = [r \in Reqs |-> <<>>]
    /\ faulted = [r \in Reqs |-> {}]
    /\ routes = [r \in Reqs |-> <<>>]
    /\ intercepted = <<>>

\* executeActions before it is called.
ExecIdle ==
    [k |-> 0, at |-> "idle", elements |-> 0, e |-> 0, ops |-> <<>>,
     warned |-> <<>>, caught |-> {}, rejected |-> {}, snapshots |-> <<>>]

\* The requests as in InitRequests; the detailed interpreter is not used.
InitState(arriving) ==
    /\ InitRequests(arriving)
    /\ actions = <<>>
    /\ timeout = 15000
    /\ checkSelector = FALSE
    /\ matching = <<>>
    /\ exec = ExecIdle

\* The /health probe before it is called.
HealthIdle ==
    [pc |-> "idle", status |-> 0, activePages |-> 0, context |-> "none",
     page |-> "none"]

\* The start-up hook of app.listen has launched the browser.
EngineReady ==
    /\ browser = 1
    /\ engines = 1
    /\ hook = "ready"
    /\ health = [HealthIdle EXCEPT !.pc = "absent"]

\* app.listen has called back: the hook's chromium.launch is pending.
EngineStarting ==
    /\ browser = 0
    /\ engines = 0
    /\ hook = "launching"
    /\ health = HealthIdle

\* ---------------------------------------------------------- Semaphore
Sem(p, q) == [permits |-> p, queue |-> q, woken |-> <<>>, admitted |-> FALSE]

\* Mutant: the test reads permits >= 0.
SemAcquireOffByOne(p, q, r) ==
    IF p >= 0
        THEN [Sem(p - 1, q) EXCEPT !.admitted = TRUE]
        ELSE Sem(p, Append(q, r))

\* acquire() called by r: the new semaphore, and whether r's promise is
\* already resolved.
SemAcquire(p, q, r) ==
    IF p > 0
        THEN [Sem(p - 1, q) EXCEPT !.admitted = TRUE]
        ELSE Sem(p, Append(q, r))

\* Mutant: the hand-off forgets its permits--.
SemReleaseKeepsPermit(p, q) ==
    IF Len(q) > 0
        THEN [Sem(p + 1, Tail(q)) EXCEPT !.woken = <<Head(q)>>]
        ELSE Sem(p + 1, q)

\* Mutant: queue.pop() for queue.shift().
SemReleaseLast(p, q) ==
    IF Len(q) > 0
        THEN [Sem((p + 1) - 1, SubSeq(q, 1, Len(q) - 1))
                  EXCEPT !.woken = <<q[Len(q)]>>]
        ELSE Sem(p + 1, q)

\* release(): the new semaphore, and the waiter whose resolve was called.
SemRelease(p, q) ==
    IF Len(q) > 0
        THEN [Sem((p + 1) - 1, Tail(q)) EXCEPT !.woken = <<Head(q)>>]
        ELSE Sem(p + 1, q)

getAvailablePermits == permits

getQueueLength == Len(queue)

\* ------------------------------------------------ handler: fragments
\* pageSemaphore.release() called by r, the last statement of the finally
\* block: r's handler ends, and the waiter whose resolve was called is
\* admitted (its continuation runs in a later step).
ReleaseDone(r) ==
    LET s == SemRelease(permits, queue)
    IN  /\ permits' = s.permits
        /\ queue' = s.queue
        /\ pc' = [k \in Reqs |->
                    IF k = r THEN "done"
                    ELSE IF s.woken = <<k>> THEN "woken" ELSE pc[k]]
        /\ holds' = [k \in Reqs |->
                    IF k = r THEN FALSE
                    ELSE IF s.woken = <<k>> THEN TRUE ELSE holds[k]]

\* Mutant: the finally block only releases the permit.
FinallyWithoutClose(r) == ReleaseDone(r)

\* Entry of the finally block, up to its first await.
Finally(r) ==
    IF page[r]
        THEN /\ pc' = [pc EXCEPT ![r] = "page.close"]
             /\ UNCHANGED <<semVars, holds>>
        ELSE IF requestContext[r]
            THEN /\ pc' = [pc EXCEPT ![r] = "context.close"]
                 /\ UNCHANGED <<semVars, holds>>
            ELSE ReleaseDone(r)

\* The part of the handler a faulting step belongs to: the engine start,
\* opening the session, page.goto, the post-load delay, the
\* required-selector wait, the content extraction of scrapePage, or the
\* top-level screenshot.
FaultClass(at) ==
    CASE at \in {"newContext", "route", "newPage", "setExtraHTTPHeaders"} -> "open"
      [] at = "launch" -> "launch"
      [] at = "goto" -> "goto"
      [] at = "waitForTimeout" -> "delay"
      [] at = "waitForSelector" -> "selector"
      [] at = "screenshot" -> "capture"
      [] OTHER -> "extract"

\* The catch block: a fault raised at step `at` reached the handler.
Catch(r, at) ==
    /\ res' = [res EXCEPT ![r] = ErrorResponse(500)]
    /\ fault' = [fault EXCEPT ![r] = FaultClass(at)]
    /\ Finally(r)

\* The handler of r has ended: its local variables are gone.
EndHandler(r) ==
    /\ requestContext' = [requestContext EXCEPT ![r] = FALSE]
    /\ page' = [page EXCEPT ![r] = FALSE]
    /\ response' = [response EXCEPT ![r] = "unset"]
    /\ i' = [i EXCEPT ![r] = 0]
    /\ actionResults' = [actionResults EXCEPT ![r] = <<>>]
    /\ screenshotData' = [screenshotData EXCEPT ![r] = <<>>]
    /\ result' = [result EXCEPT ![r] = <<>>]

\* A step that only moves r to its next await.
Goto(r, p) ==
    /\ pc' = [pc EXCEPT ![r] = p]
    /\ UNCHANGED <<semVars, holds, res, fault>>

\* Mutant: only the screenshots decide whether actions is sent.
HasOutputScreenshotsOnly(ar) == Len(ar.screenshots) > 0

\* getError(status) of ./helpers/get_error: the classification of a
\* status, <<>> when there is none.
getError(status) ==
    IF status = <<>> THEN <<"navigation">>
    ELSE IF status[1] \in 200..299 THEN <<>>
    ELSE IF status[1] \in 400..499 THEN <<"client">>
    ELSE IF status[1] \in 500..599 THEN <<"server">>
    ELSE <<"other">>

\* Mutant: every status but 200 is an error.
pageErrorOfNot200(status) == IF status # <<200>> THEN <<"other">> ELSE <<>>

\* Line 492, and line 544 which sends pageError only when it is truthy.
pageErrorOf(status) == IF status # <<200>> THEN getError(status) ELSE <<>>

HasOutput(ar) ==
    \/ Len(ar.screenshots) > 0
    \/ Len(ar.scrapes) > 0
    \/ Len(ar.javascriptReturns) > 0
    \/ Len(ar.pdfs) > 0

\* Lines 512-545: the success response, then the finally block.  ar is
\* actionResults and sd is screenshotData at that point; result' is the
\* result scrapePage returned, in this step or in an earlier one.
Respond(r, ar, sd) ==
    LET ar2 == IF sd # <<>> /\ ar = <<>>
                   THEN <<[EmptyResults EXCEPT !.screenshots = sd]>>
                   ELSE ar
    IN  /\ actionResults' = [actionResults EXCEPT ![r] = ar2]
        /\ screenshotData' = [screenshotData EXCEPT ![r] = sd]
        /\ res' = [res EXCEPT ![r] =
                      [status |-> 200,
                       content |-> <<result'[r][1].content>>,
                       pageStatusCode |-> <<result'[r][1].status>>,
                       contentType |-> result'[r][1].contentType,
                       pageError |-> pageErrorOf(result'[r][1].status),
                       screenshot |-> sd,
                       actions |-> IF ar2 # <<>> /\ HasOutput(ar2[1])
                                       THEN ar2 ELSE <<>>]]
        /\ UNCHANGED fault
        /\ Finally(r)

\* Lines 501-510, up to the await in takeScreenshot; without a screenshot
\* request, on to the response.
AfterActions(r, ar) ==
    IF body[r].screenshot \/ body[r].full_page_screenshot
        THEN /\ actionResults' = [actionResults EXCEPT ![r] = ar]
             /\ UNCHANGED screenshotData
             /\ Goto(r, "screenshot")
        ELSE Respond(r, ar, <<>>)

\* The schema scrapeURLWithPlaywright parses the response body with
\* (part_001, lines 28-44).  In the JSON body a field whose value was
\* undefined is missing and a null stays null: content must be a string,
\* pageStatusCode a number (null and missing are rejected), every other
\* field may be missing and is a string or the actions object otherwise.
schema(resp) ==
    /\ Len(resp.content) = 1
    /\ Len(resp.pageStatusCode) = 1
    /\ Len(resp.pageStatusCode[1]) = 1
    /\ resp.pageStatusCode[1][1] \in Int
    /\ Len(resp.pageError) <= 1
    /\ Len(resp.contentType) <= 1
    /\ Len(resp.screenshot) <= 1
    /\ Len(resp.actions) <= 1

\* ------------------------------------------------- executeActions
\* Mutant: the default case awaits like a known case.
IsKnownAny(a) == a.type \in AllKinds

\* The tag has a case in the switch of lines 277-397.
IsKnown(a) == a.type \in KnownKinds

\* Mutant: the loop starts at the second action.
LoopStartOffByOne == 1 + 1

\* The loop starts at the first action.
LoopStart == 1

\* Mutant: the catch block leaves the loop.
NextIndexAbortOnFault(acts, k, ok) == IF ok THEN k + 1 ELSE Len(acts) + 1

\* The index the loop turns to after action k, whether its case ended in
\* break or its fault was caught.
NextIndex(acts, k, ok) == k + 1

\* From index k on, the first action whose case awaits: an unknown tag
\* falls to the default case, which only warns.
RECURSIVE NextAwait(_, _)
NextAwait(acts, k) ==
    IF k > Len(acts) THEN k
    ELSE IF IsKnown(acts[k]) THEN k
    ELSE NextAwait(acts, NextIndex(acts, k, TRUE))

\* The events between two awaits: the actions from..(to - 1) run through
\* the default case, then action `to` begins.
RECURSIVE SyncEvents(_, _, _)
SyncEvents(acts, from, to) ==
    IF from > Len(acts) THEN <<>>
    ELSE IF from >= to THEN <<<<"begin", to>>>>
    ELSE <<<<"begin", from>>, <<"end", from>>>>
             \o SyncEvents(acts, NextIndex(acts, from, TRUE), to)

\* Mutant: unshift for push.
PushFront(ar, a, k) ==
    CASE a.type = "screenshot" ->
             [ar EXCEPT !.screenshots = <<[by |-> k]>> \o @]
      [] a.type = "scrape" ->
             [ar EXCEPT !.scrapes = <<[by |-> k]>> \o @]
      [] a.type = "executeJavascript" ->
             [ar EXCEPT !.javascriptReturns = <<[by |-> k]>> \o @]
      [] a.type = "pdf" ->
             [ar EXCEPT !.pdfs = <<[by |-> k]>> \o @]
      [] OTHER -> ar

\* Mutant: every result is pushed to results.screenshots.
PushIntoScreenshots(ar, a, k) ==
    IF a.type \in {"screenshot", "scrape", "executeJavascript", "pdf"}
        THEN [ar EXCEPT !.screenshots = Append(@, [by |-> k])]
        ELSE ar

\* results.<seq>.push(value): the result action k leaves when its case
\* completes.
Push(ar, a, k) ==
    CASE a.type = "screenshot" ->
             [ar EXCEPT !.screenshots = Append(@, [by |-> k])]
      [] a.type = "scrape" ->
             [ar EXCEPT !.scrapes = Append(@, [by |-> k])]
      [] a.type = "executeJavascript" ->
             [ar EXCEPT !.javascriptReturns = Append(@, [by |-> k])]
      [] a.type = "pdf" ->
             [ar EXCEPT !.pdfs = Append(@, [by |-> k])]
      [] OTHER -> ar

\* The loop from index `from` up to its next await, or to the return;
\* `ended` is the end event of the action that has just settled.
RunLoopFrom(r, ar, from, ended) ==
    LET acts == body[r].actions
        j == NextAwait(acts, from)
    IN  /\ trace' = [trace EXCEPT ![r] = @ \o ended \o SyncEvents(acts, from, j)]
        /\ IF j <= Len(acts)
               THEN /\ i' = [i EXCEPT ![r] = j]
                    /\ actionResults' = [actionResults EXCEPT ![r] = <<ar>>]
                    /\ UNCHANGED screenshotData
                    /\ Goto(r, "action")
               ELSE /\ i' = [i EXCEPT ![r] = j]
                    /\ AfterActions(r, <<ar>>)

\* Mutant: only application/json counts.
RawBodyJsonOnly(ct) == ct = <<"json">>

\* Line 226: the content type asks for the raw body.
RawBody(ct) == ct # <<>> /\ ct[1] \in {"json", "plain"}

\* Line 225: the content-type header of the response, if any.
ContentType(resp) == IF resp \in {"null", "none"} THEN <<>> ELSE <<resp>>

\* Mutant: the status of the response is not read.
ResultStatusOk(resp, st) == IF resp = "null" THEN <<>> ELSE <<200>>

\* Line 233: response ? response.status() : null.
ResultStatus(resp, st) == IF resp = "null" THEN <<>> ELSE <<st>>

\* Lines 231-236 and 491-499: scrapePage returns (its local `response` is
\* gone) and the handler goes on to the action list.
AfterScrape(r, content) ==
    /\ response' = [response EXCEPT ![r] = "unset"]
    /\ result' = [result EXCEPT ![r] =
                      <<[content |-> content,
                         status |-> ResultStatus(response[r], targetStatus),
                         contentType |-> ContentType(response[r])]>>]
    /\ IF Len(body[r].actions) > 0
           THEN RunLoopFrom(r, EmptyResults, LoopStart, <<>>)
           ELSE /\ UNCHANGED <<i, trace>>
                /\ AfterActions(r, actionResults[r])

\* ------------------------------------------------ handler: the steps
\* pageSemaphore.acquire() called by r (line 478).
Acquire(r) ==
    LET s == SemAcquire(permits, queue, r)
    IN  /\ permits' = s.permits
        /\ queue' = s.queue
        /\ pc' = [pc EXCEPT ![r] = IF s.admitted THEN "acquired" ELSE "waiting"]
        /\ holds' = [holds EXCEPT ![r] = s.admitted]

\* An unhandled rejection ends the process (Node 18): every handler in
\* flight is gone and nothing is served any more.
Crash ==
    /\ pc' = [k \in Reqs |-> IF pc[k] = "absent" THEN "absent" ELSE "crashed"]
    /\ health' = [health EXCEPT !.pc = "crashed"]
    /\ hook' = "crashed"

\* A rejection leaves r's async handler after its response was sent: the
\* framework either takes it (Express 5; with the headers sent there is
\* nothing more to answer) or ignores the handler's promise (Express 4), and
\* the unhandled rejection ends the process.
Escapes(r) ==
    \E handled \in BOOLEAN :
        IF handled
            THEN /\ pc' = [pc EXCEPT ![r] = "done"]
                 /\ UNCHANGED <<hook, health>>
            ELSE Crash

\* chromium.launch resolved: line 131 assigns the new engine to browser.
Launched ==
    /\ engines' = engines + 1
    /\ browser' = engines + 1

\* A request arrives: validation, the lazy start of the engine, then
\* pageSemaphore.acquire() (lines 462-478).
Arrive(r) ==
    /\ pc[r] = "idle"
    /\ IF body[r].url = "" \/ ~isValidUrl(body[r].url)
          THEN /\ res' = [res EXCEPT ![r] = ErrorResponse(400)]
               /\ pc' = [pc EXCEPT ![r] = "done"]
               /\ UNCHANGED <<semVars, holds>>
          ELSE IF browser = 0
              THEN /\ pc' = [pc EXCEPT ![r] = "launch"]
                   /\ UNCHANGED <<semVars, holds, res>>
              ELSE /\ Acquire(r)
                   /\ UNCHANGED res
    /\ UNCHANGED <<constVars, netVars, actVars, engineVars, handlerVars, browserVars, fault, tdFault, trace, faulted>>

\* The chromium.launch awaited by r's handler settles (lines 474-478).  A
\* rejection leaves the async handler, outside its try block: the framework
\* either passes it to its error handler, which answers 500 (Express 5), or
\* ignores the handler's promise (Express 4), and the unhandled rejection
\* ends the process.
Launch(r) ==
    /\ pc[r] = "launch"
    /\ \E ok \in BOOLEAN :
          IF ok
              THEN /\ Launched
                   /\ Acquire(r)
                   /\ UNCHANGED <<hook, health, res, fault>>
              ELSE /\ fault' = [fault EXCEPT ![r] = FaultClass("launch")]
                   /\ UNCHANGED <<browser, engines, semVars, holds>>
                   /\ \E handled \in BOOLEAN :
                         IF handled
                             THEN /\ res' = [res EXCEPT ![r] = ErrorResponse(500)]
                                  /\ pc' = [pc EXCEPT ![r] = "done"]
                                  /\ UNCHANGED <<hook, health>>
                             ELSE /\ Crash
                                  /\ UNCHANGED res
    /\ UNCHANGED <<constVars, netVars, actVars, handlerVars, browserVars, tdFault, trace, faulted>>

\* The chromium.launch of the start-up hook settles (lines 557-561); its
\* rejection is unhandled.
StartupHook ==
    /\ hook = "launching"
    /\ \E ok \in BOOLEAN :
          IF ok
              THEN /\ Launched
                   /\ hook' = "ready"
                   /\ UNCHANGED <<pc, health>>
              ELSE /\ Crash
                   /\ UNCHANGED <<browser, engines>>
    /\ UNCHANGED <<constVars, netVars, actVars, semVars, handlerVars, browserVars, ghostVars, res>>

\* GET /health arrives (lines 412-418).
HealthArrive ==
    /\ health.pc = "idle"
    /\ health' = [health EXCEPT !.pc = IF browser = 0 THEN "launch"
                                                    ELSE "newContext"]
    /\ UNCHANGED <<constVars, netVars, actVars, semVars, handlerVars, browserVars, ghostVars, res,
                   pc, browser, engines, hook>>

\* The probe's catch block (lines 428-434).
Unhealthy(h) == [h EXCEPT !.pc = "done", !.status = 503]

\* The chromium.launch awaited by the probe settles (lines 414-418).
HealthLaunch ==
    /\ health.pc = "launch"
    /\ \E ok \in BOOLEAN :
          IF ok
              THEN /\ Launched
                   /\ health' = [health EXCEPT !.pc = "newContext"]
              ELSE /\ health' = Unhealthy(health)
                   /\ UNCHANGED <<browser, engines>>
    /\ UNCHANGED <<constVars, netVars, actVars, semVars, handlerVars, browserVars, ghostVars, res,
                   pc, hook>>

\* An awaited browser call of the probe's throwaway session settles
\* (lines 418-427, createContext included); after the last one the probe
\* answers with the configured capacity and the active count.
HealthStep ==
    /\ health.pc \in {"newContext", "route.media", "route.all", "newPage",
                       "page.close", "context.close"}
    /\ \E ok \in BOOLEAN :
          health' =
              IF ~ok THEN Unhealthy(health)
              ELSE CASE health.pc = "newContext" ->
                            [health EXCEPT !.context = "open",
                                           !.pc = IF BLOCK_MEDIA THEN "route.media"
                                                                 ELSE "route.all"]
                     [] health.pc = "route.media" ->
                            [health EXCEPT !.pc = "route.all"]
                     [] health.pc = "route.all" ->
                            [health EXCEPT !.pc = "newPage"]
                     [] health.pc = "newPage" ->
                            [health EXCEPT !.page = "open", !.pc = "page.close"]
                     [] health.pc = "page.close" ->
                            [health EXCEPT !.page = "closed",
                                           !.pc = "context.close"]
                     [] health.pc = "context.close" ->
                            [health EXCEPT
                                !.context = "closed",
                                !.pc = "done",
                                !.status = 200,
                                !.activePages =
                                    MAX_CONCURRENT_PAGES - getAvailablePermits]
    /\ UNCHANGED <<constVars, netVars, actVars, semVars, handlerVars, browserVars, ghostVars, res,
                   pc, browser, engines, hook>>

\* acquire()'s promise is resolved, at once ("acquired") or by a release
\* ("woken"): the handler enters the try block and createContext calls
\* browser.newContext (lines 480-484, 145-167).
Resume(r) ==
    /\ pc[r] \in {"acquired", "woken"}
    /\ Goto(r, "newContext")
    /\ UNCHANGED <<constVars, netVars, actVars, engineVars, handlerVars, browserVars, tdFault, trace, faulted>>

\* browser.newContext settles (line 167).
NewContext(r) ==
    /\ pc[r] = "newContext"
    /\ \E ok \in BOOLEAN :
          IF ok
              THEN /\ contexts' = [contexts EXCEPT ![r] = "open"]
                   /\ Goto(r, IF BLOCK_MEDIA THEN "route.media" ELSE "route.all")
              ELSE /\ UNCHANGED contexts
                   /\ Catch(r, "newContext")
    /\ UNCHANGED <<constVars, netVars, actVars, engineVars, handlerVars, pages, tdFault, trace, faulted>>

\* newContext.route settles (lines 169-185); after the last one
\* createContext returns and the handler calls newPage (lines 484-485).
Route(r) ==
    /\ pc[r] \in {"route.media", "route.all"}
    /\ \E ok \in BOOLEAN :
          IF ok
              THEN IF pc[r] = "route.media"
                       THEN /\ routes' = [routes EXCEPT ![r] = Append(@, "media")]
                            /\ Goto(r, "route.all")
                            /\ UNCHANGED requestContext
                       ELSE /\ routes' = [routes EXCEPT ![r] = Append(@, "all")]
                            /\ requestContext' = [requestContext EXCEPT ![r] = TRUE]
                            /\ Goto(r, "newPage")
              ELSE /\ UNCHANGED <<requestContext, routes>>
                   /\ Catch(r, "route")
    /\ UNCHANGED <<constVars, intercepted, actVars, engineVars, page, response, i,
                   actionResults, screenshotData, result, browserVars, tdFault,
                   trace, faulted>>

\* The extensions of the media route's glob (line 170).
MediaExts ==
    {"png", "jpg", "jpeg", "gif", "svg", "mp3", "mp4", "avi", "flac", "ogg",
     "wav", "webm"}

\* Lines 68-82.  A hostname is a sequence of pieces of text, so that one
\* name can be part of another.
AD_SERVING_DOMAINS ==
    {<<"doubleclick.net">>, <<"adservice", ".google", ".com">>,
     <<"googlesyndication.com">>, <<"googletagservices.com">>,
     <<"googletagmanager.com">>, <<"google-analytics.com">>,
     <<"adsystem.com">>, <<"adservice", ".com">>, <<"adnxs.com">>,
     <<"ads-twitter.com">>, <<"facebook.net">>, <<"fbcdn.net">>,
     <<"amazon-", "adsystem.com">>}

\* Mutant: the hostname must equal the entry.
IncludesWhole(h, d) == h = d

\* hostname.includes(domain) (line 180).
Includes(h, d) ==
    \E k \in 0..(Len(h) - Len(d)) : SubSeq(h, k + 1, k + Len(d)) = d

\* The handler of route '**/*' (lines 176-185): new URL(...) throws on a
\* malformed URL.
AdFilter(q) ==
    IF q.malformed THEN "throw"
    ELSE IF \E d \in AD_SERVING_DOMAINS : Includes(q.host, d) THEN "abort"
    ELSE "continue"

\* The handler of the media route (lines 170-172).
MediaFilter(q) == "abort"

\* The URL of q matches the pattern of this handler.
Matches(handler, q) == handler = "all" \/ q.ext \in MediaExts

\* What happens to the request q of a page whose context has these
\* handlers: the matching handlers are tried from the one registered last
\* (Playwright's route order), and each handler here settles the request
\* itself (abort, continue, or a fault), none calls route.fallback().
RECURSIVE Decide(_, _)
Decide(handlers, q) ==
    IF handlers = <<>> THEN "continue"
    ELSE LET last == handlers[Len(handlers)]
         IN  IF Matches(last, q)
                 THEN IF last = "media" THEN MediaFilter(q) ELSE AdFilter(q)
                 ELSE Decide(SubSeq(handlers, 1, Len(handlers) - 1), q)

\* The requests a page makes.
PageRequest(m, h, e) == [malformed |-> m, host |-> h, ext |-> e]

PageRequests ==
    {PageRequest(FALSE, <<"example.com">>, "html"),
     PageRequest(FALSE, <<"example.com">>, "png"),
     PageRequest(FALSE, <<"cdn.", "example.com">>, "mp4"),
     PageRequest(FALSE, <<"ads.", "doubleclick.net">>, "js"),
     PageRequest(FALSE, <<"doubleclick.net", ".evil.org">>, "js"),
     PageRequest(FALSE, <<"amazon-", "adsystem.com">>, "gif"),
     PageRequest(FALSE, <<"adservice", ".example.com">>, "js"),
     PageRequest(TRUE, <<>>, "html")}

\* The page of r makes a request, which the handlers of its context
\* intercept.
Intercept(r) ==
    /\ pages[r] = "open"
    /\ contexts[r] = "open"
    /\ pc[r] # "crashed"
    /\ \E q \in PageRequests :
          intercepted' = <<[by |-> r, request |-> q,
                            outcome |-> Decide(routes[r], q)]>>
    /\ UNCHANGED <<constVars, routes, actVars, engineVars, semVars, handlerVars,
                   browserVars, ghostVars, res, pc>>

\* requestContext.newPage settles (lines 485-491).
NewPage(r) ==
    /\ pc[r] = "newPage"
    /\ \E ok \in BOOLEAN :
          IF ok
              THEN /\ page' = [page EXCEPT ![r] = TRUE]
                   /\ pages' = [pages EXCEPT ![r] = "open"]
                   /\ Goto(r, IF body[r].headers
                                  THEN "setExtraHTTPHeaders" ELSE "goto")
              ELSE /\ UNCHANGED <<page, pages>>
                   /\ Catch(r, "newPage")
    /\ UNCHANGED <<constVars, netVars, actVars, engineVars, requestContext, response, i, actionResults,
                   screenshotData, result, contexts, tdFault, trace, faulted>>

\* page.setExtraHTTPHeaders settles (lines 487-491).
SetExtraHTTPHeaders(r) ==
    /\ pc[r] = "setExtraHTTPHeaders"
    /\ \E ok \in BOOLEAN :
          IF ok THEN Goto(r, "goto") ELSE Catch(r, "setExtraHTTPHeaders")
    /\ UNCHANGED <<constVars, netVars, actVars, engineVars, handlerVars, browserVars, tdFault, trace, faulted>>

AfterDelay(b) == IF b.check_selector THEN "waitForSelector" ELSE "content"

\* Mutant: the delay is applied from 0 on.
AfterGotoNonNegative(b) ==
    IF b.wait_after_load >= 0 THEN "waitForTimeout" ELSE AfterDelay(b)

AfterGoto(b) == IF b.wait_after_load > 0 THEN "waitForTimeout" ELSE AfterDelay(b)

\* page.goto settles (lines 207-215): a response, null, or a fault.
PageGoto(r) ==
    /\ pc[r] = "goto"
    /\ \E out \in {"null", "throw"} \cup targetTypes :
          IF out # "throw"
              THEN /\ response' = [response EXCEPT ![r] = out]
                   /\ Goto(r, AfterGoto(body[r]))
              ELSE /\ UNCHANGED response
                   /\ Catch(r, "goto")
    /\ UNCHANGED <<constVars, netVars, actVars, engineVars, requestContext, page, i, actionResults,
                   screenshotData, result, browserVars, tdFault, trace, faulted>>

\* page.waitForTimeout(waitAfterLoad) settles (lines 209-215).
WaitForTimeout(r) ==
    /\ pc[r] = "waitForTimeout"
    /\ \E ok \in BOOLEAN :
          IF ok THEN Goto(r, AfterDelay(body[r])) ELSE Catch(r, "waitForTimeout")
    /\ UNCHANGED <<constVars, netVars, actVars, engineVars, handlerVars, browserVars, tdFault, trace, faulted>>

\* page.waitForSelector(checkSelector) settles (lines 213-221).
WaitForSelector(r) ==
    /\ pc[r] = "waitForSelector"
    /\ \E ok \in BOOLEAN :
          IF ok THEN Goto(r, "content") ELSE Catch(r, "waitForSelector")
    /\ UNCHANGED <<constVars, netVars, actVars, engineVars, handlerVars, browserVars, tdFault, trace, faulted>>

\* page.content settles (lines 221-224).
PageContent(r) ==
    /\ pc[r] = "content"
    /\ \E ok \in BOOLEAN :
          IF ok
              THEN IF response[r] # "null"
                       THEN /\ Goto(r, "allHeaders")
                            /\ UNCHANGED <<response, i, actionResults, screenshotData, result, trace>>
                       ELSE AfterScrape(r, "rendered")
              ELSE /\ UNCHANGED <<response, i, actionResults, screenshotData, result, trace>>
                   /\ Catch(r, "content")
    /\ UNCHANGED <<constVars, netVars, actVars, engineVars, requestContext, page, browserVars, tdFault,
                   faulted>>

\* response.allHeaders settles (lines 224-227).
AllHeaders(r) ==
    /\ pc[r] = "allHeaders"
    /\ \E ok \in BOOLEAN :
          IF ok
              THEN IF RawBody(ContentType(response[r]))
                       THEN /\ Goto(r, "body")
                            /\ UNCHANGED <<response, i, actionResults, screenshotData, result, trace>>
                       ELSE AfterScrape(r, "rendered")
              ELSE /\ UNCHANGED <<response, i, actionResults, screenshotData, result, trace>>
                   /\ Catch(r, "allHeaders")
    /\ UNCHANGED <<constVars, netVars, actVars, engineVars, requestContext, page, browserVars, tdFault,
                   faulted>>

\* response.body settles (line 227).
ResponseBody(r) ==
    /\ pc[r] = "body"
    /\ \E ok \in BOOLEAN :
          IF ok
              THEN AfterScrape(r, "raw")
              ELSE /\ UNCHANGED <<response, i, actionResults, screenshotData, result, trace>>
                   /\ Catch(r, "body")
    /\ UNCHANGED <<constVars, netVars, actVars, engineVars, requestContext, page, browserVars, tdFault,
                   faulted>>

\* The awaited call of action i settles (lines 276-407): its result is
\* pushed, or its fault is caught and logged; the loop goes on.
ActionStep(r) ==
    /\ pc[r] = "action"
    /\ UNCHANGED <<constVars, netVars, actVars, engineVars, requestContext, page, response, result,
                   browserVars, tdFault>>
    /\ \E ok \in BOOLEAN :
          LET acts == body[r].actions
              k == i[r]
              ar == IF ok THEN Push(actionResults[r][1], acts[k], k)
                          ELSE actionResults[r][1]
          IN  /\ faulted' = [faulted EXCEPT ![r] = IF ok THEN @ ELSE @ \cup {k}]
              /\ RunLoopFrom(r, ar, NextIndex(acts, k, ok), <<<<"end", k>>>>)

\* Mutant: push for unshift.
UnshiftAtEnd(ar, sd) ==
    IF ar # <<>> /\ Len(ar[1].screenshots) > 0
        THEN <<[ar[1] EXCEPT !.screenshots = @ \o sd]>>
        ELSE ar

\* The unshift of line 508.
Unshift(ar, sd) ==
    IF ar # <<>> /\ Len(ar[1].screenshots) > 0
        THEN <<[ar[1] EXCEPT !.screenshots = sd \o @]>>
        ELSE ar

\* page.screenshot of the top-level screenshot settles (lines 505-545).
TopScreenshot(r) ==
    /\ pc[r] = "screenshot"
    /\ UNCHANGED <<constVars, netVars, actVars, engineVars, requestContext, page, response, i, result,
                   browserVars, tdFault, trace, faulted>>
    /\ \E ok \in BOOLEAN :
          IF ok
              THEN Respond(r, Unshift(actionResults[r], <<[by |-> 0]>>),
                           <<[by |-> 0]>>)
              ELSE /\ UNCHANGED <<actionResults, screenshotData>>
                   /\ Catch(r, "screenshot")

\* page.close settles (lines 551-552).  A fault leaves the finally block
\* and the handler: the handler ends there.
PageClose(r) ==
    /\ pc[r] = "page.close"
    /\ \E ok \in BOOLEAN :
          IF ok
              THEN /\ pages' = [pages EXCEPT ![r] = "closed"]
                   /\ UNCHANGED <<tdFault, hook, health>>
                   /\ IF requestContext[r]
                         THEN /\ pc' = [pc EXCEPT ![r] = "context.close"]
                              /\ UNCHANGED <<semVars, holds, handlerVars>>
                         ELSE /\ ReleaseDone(r)
                              /\ EndHandler(r)
              ELSE /\ tdFault' = [tdFault EXCEPT ![r] = TRUE]
                   /\ Escapes(r)
                   /\ EndHandler(r)
                   /\ UNCHANGED <<pages, semVars, holds>>
    /\ UNCHANGED <<constVars, netVars, actVars, browser, engines, res, contexts, fault, trace,
                   faulted>>

\* requestContext.close settles (lines 552-553); then release().
ContextClose(r) ==
    /\ pc[r] = "context.close"
    /\ \E ok \in BOOLEAN :
          IF ok
              THEN /\ contexts' = [contexts EXCEPT ![r] = "closed"]
                   /\ UNCHANGED <<tdFault, hook, health>>
                   /\ ReleaseDone(r)
              ELSE /\ tdFault' = [tdFault EXCEPT ![r] = TRUE]
                   /\ Escapes(r)
                   /\ UNCHANGED <<contexts, semVars, holds>>
    /\ EndHandler(r)
    /\ UNCHANGED <<constVars, netVars, actVars, browser, engines, res, pages, fault, trace,
                   faulted>>

\* ------------------------------------- executeActions in detail
\* The variables of the request handlers, which the interpreter below
\* does not touch.
requestVars ==
    <<constVars, netVars, engineVars, semVars, handlerVars, browserVars,
      ghostVars, res, pc>>

\* An action with the fields of its variant; <<>> is a field not given.
ActionOf(t, ms, sel, a, l, sc, f) ==
    [type |-> t, milliseconds |-> ms, selector |-> sel, all |-> a,
     landscape |-> l, scale |-> sc, format |-> f]

WaitAction(ms, sel) == ActionOf("wait", ms, sel, FALSE, <<>>, <<>>, <<>>)

ClickAction(a) == ActionOf("click", <<>>, <<"sel">>, a, <<>>, <<>>, <<>>)

PdfAction(l, sc, f) == ActionOf("pdf", <<>>, <<>>, FALSE, l, sc, f)

PlainAction(t) == ActionOf(t, <<>>, <<>>, FALSE, <<>>, <<>>, <<>>)

DetailedActions ==
    {WaitAction(ms, sel) : ms \in {<<>>, <<100>>}, sel \in {<<>>, <<"sel">>}}
    \cup {ClickAction(a) : a \in BOOLEAN}
    \cup {PdfAction(l, sc, f) : l \in {<<>>, <<TRUE>>, <<FALSE>>},
                                sc \in {<<>>, <<2>>},
                                f \in {<<>>, <<"A4">>}}
    \cup {PlainAction("scrape"), PlainAction("hover")}

\* The actions tried after the first one of a list.
FollowActions ==
    {PlainAction("scrape"), ClickAction(TRUE), WaitAction(<<>>, <<"sel">>)}

\* The lists of up to n actions: any detailed action first, then
\* follow actions.
RECURSIVE DetailedLists(_)
DetailedLists(n) ==
    IF n = 0 THEN {<<>>}
    ELSE LET shorter == DetailedLists(n - 1)
         IN  shorter \cup
             {Append(l, a) : l \in {s \in shorter : Len(s) = n - 1},
                             a \in IF n = 1 THEN DetailedActions
                                             ELSE FollowActions}

\* The request timeouts tried: the default and another one.
Timeouts == {5000, 15000}

\* A page operation: the call, the action making it (0: scrapePage), the
\* element a click resolved to, and the arguments passed.
Op(op, k, ms, to, options) ==
    [op |-> op, by |-> k, element |-> 0, ms |-> ms, timeout |-> to,
     options |-> options]

\* Mutant: landscape defaults to false.
pdfOptionsLandscapeDefaulted(a) ==
    [landscape |-> IF a.landscape # <<>> THEN a.landscape ELSE <<FALSE>>,
     scale |-> a.scale,
     format |-> IF a.format # <<>> THEN a.format ELSE <<"Letter">>]

\* Lines 373-390: the options object of a pdf action.
pdfOptions(a) ==
    [landscape |-> a.landscape,
     scale |-> a.scale,
     format |-> IF a.format # <<>> THEN a.format ELSE <<"Letter">>]

\* Mutant: the selector is tested first.
WaitCallSelectorFirst(a) ==
    IF a.selector # <<>> THEN "waitForSelector"
    ELSE IF a.milliseconds # <<>> THEN "waitForTimeout"
    ELSE "none"

\* Lines 283-291: the call a wait action makes.
WaitCall(a) ==
    IF a.milliseconds # <<>> THEN "waitForTimeout"
    ELSE IF a.selector # <<>> THEN "waitForSelector"
    ELSE "none"

\* Lines 279-281 and 289-291: the warning a wait action logs, if any.
WaitWarning(a) ==
    IF a.milliseconds # <<>> /\ a.selector # <<>> THEN <<"both">>
    ELSE IF a.milliseconds = <<>> /\ a.selector = <<>> THEN <<"neither">>
    ELSE <<>>

\* Mutant: a click fault is passed over and the loop goes on.
NextElementOnFault(n, e, ok) == IF e < n THEN e + 1 ELSE 0

\* Lines 299-301: the element of the snapshot the for-of loop turns to
\* after click e, 0 when it leaves the loop (at its end, or by a fault).
NextElement(n, e, ok) == IF ok /\ e < n THEN e + 1 ELSE 0

\* The interpreter x makes a call for action k and is suspended in it.
Call(x, k, at, op) == [x EXCEPT !.k = k, !.at = at, !.ops = Append(@, op)]

Warn(x, k, w) ==
    IF w = <<>> THEN x ELSE [x EXCEPT !.warned = Append(@, <<k, w[1]>>)]

\* The loop of lines 272-407 from index k up to its next await, or to
\* the return.
RECURSIVE Dispatch(_, _)
Dispatch(x, k) ==
    IF k > Len(actions) THEN [x EXCEPT !.k = k, !.at = "returned"]
    ELSE LET a == actions[k]
             next == NextIndex(actions, k, TRUE)
         IN  CASE a.type = "wait" ->
                    LET w == Warn(x, k, WaitWarning(a))
                    IN  CASE WaitCall(a) = "waitForTimeout" ->
                                Call(w, k, "waitForTimeout",
                                     Op("waitForTimeout", k, a.milliseconds,
                                        <<>>, <<>>))
                          [] WaitCall(a) = "waitForSelector" ->
                                Call(w, k, "waitForSelector",
                                     Op("waitForSelector", k, <<>>,
                                        <<30000>>, <<>>))
                          [] OTHER -> Dispatch(w, next)
               [] a.type = "click" ->
                    IF a.all
                        THEN Call(x, k, "locator.all",
                                  Op("locator.all", k, <<>>, <<>>, <<>>))
                        ELSE Call(x, k, "page.click",
                                  Op("page.click", k, <<>>, <<>>, <<>>))
               [] a.type = "pdf" ->
                    Call(x, k, "page.pdf",
                         Op("page.pdf", k, <<>>, <<>>, <<pdfOptions(a)>>))
               [] a.type \in KnownKinds \ {"wait", "click", "pdf"} ->
                    Call(x, k, "call", Op(a.type, k, <<>>, <<>>, <<>>))
               [] OTHER -> Dispatch(Warn(x, k, <<"unknown">>), next)

\* The catch block of lines 402-406 for the call x is suspended in.
Caught(x) ==
    [x EXCEPT !.caught = @ \cup {x.k}, !.rejected = @ \cup {Len(x.ops)}]

\* The call x is suspended in settles, and the case ends.
Settle(x, ok) ==
    IF ok THEN Dispatch(x, NextIndex(actions, x.k, TRUE))
          ELSE Dispatch(Caught(x), NextIndex(actions, x.k, FALSE))

\* After page.goto, scrapePage comes to its required-selector wait (lines
\* 213-215); without required selector the handler comes to
\* executeActions (lines 494-499, 264-276).
ExecStart ==
    /\ exec.at = "idle"
    /\ exec' = IF checkSelector
                   THEN Call(exec, 0, "checkSelector",
                             Op("waitForSelector", 0, <<>>, <<timeout>>, <<>>))
                   ELSE Dispatch(exec, LoopStart)
    /\ UNCHANGED <<requestVars, actions, timeout, checkSelector, matching>>

\* page.waitForSelector(checkSelector, { timeout }) of scrapePage settles
\* (lines 213-219); executeActions is called when it resolved (the
\* content extraction between them is part of the request handlers above).
RequiredSelector ==
    /\ exec.at = "checkSelector"
    /\ \E ok \in BOOLEAN :
          exec' = IF ok THEN Dispatch(exec, LoopStart)
                        ELSE [exec EXCEPT !.at = "failed"]
    /\ UNCHANGED <<requestVars, actions, timeout, checkSelector, matching>>

\* The waitForTimeout or waitForSelector of a wait action settles
\* (lines 283-288).
WaitSettles ==
    /\ exec.at \in {"waitForTimeout", "waitForSelector"}
    /\ \E ok \in BOOLEAN : exec' = Settle(exec, ok)
    /\ UNCHANGED <<requestVars, actions, timeout, checkSelector, matching>>

\* page.locator(selector).all() settles (lines 296-299): it resolves to
\* one nth-locator for each element matching at that moment.
LocatorAll ==
    /\ exec.at = "locator.all"
    /\ \E ok \in BOOLEAN :
          exec' =
              IF ~ok THEN Settle(exec, FALSE)
              ELSE LET n == Len(matching)
                       x == [exec EXCEPT
                                !.snapshots =
                                    Append(@, [by |-> exec.k, n |-> n,
                                               ids |-> matching]),
                                !.elements = n]
                   IN  IF n = 0 THEN Settle(x, TRUE)
                       ELSE Call([x EXCEPT !.e = 1], exec.k, "element.click",
                                 Op("element.click", exec.k, <<>>, <<>>, <<>>))
    /\ UNCHANGED <<requestVars, actions, timeout, checkSelector, matching>>

\* element.click() settles (lines 299-301): the nth-locator resolves
\* against the page as it is when the click is performed.
ElementClick ==
    /\ exec.at = "element.click"
    /\ \E ok \in BOOLEAN :
          LET x == IF ok THEN [exec EXCEPT
                                  !.ops[Len(exec.ops)].element =
                                      matching[exec.e]]
                         ELSE exec
              e2 == NextElement(exec.elements, exec.e, ok)
          IN  exec' =
                  IF e2 > 0
                      THEN Call([(IF ok THEN x ELSE Caught(x)) EXCEPT !.e = e2],
                                exec.k, "element.click",
                                Op("element.click", exec.k, <<>>, <<>>, <<>>))
                      ELSE Settle([x EXCEPT !.e = 0], ok)
    /\ UNCHANGED <<requestVars, actions, timeout, checkSelector, matching>>

\* page.click(selector) settles (lines 303-304).
PageClick ==
    /\ exec.at = "page.click"
    /\ \E ok \in BOOLEAN : exec' = Settle(exec, ok)
    /\ UNCHANGED <<requestVars, actions, timeout, checkSelector, matching>>

\* page.pdf(pdfOptions) settles (lines 391-395).
PagePdf ==
    /\ exec.at = "page.pdf"
    /\ \E ok \in BOOLEAN : exec' = Settle(exec, ok)
    /\ UNCHANGED <<requestVars, actions, timeout, checkSelector, matching>>

\* The call of another known action settles.
CallSettles ==
    /\ exec.at = "call"
    /\ \E ok \in BOOLEAN : exec' = Settle(exec, ok)
    /\ UNCHANGED <<requestVars, actions, timeout, checkSelector, matching>>

\* The page changes while a click action with all set is suspended: an
\* element that matches the click selector appears, before or after the
\* others in document order.
PageChanges ==
    /\ exec.at \in {"locator.all", "element.click"}
    /\ Len(matching) < MaxMatches
    /\ \E front \in BOOLEAN :
          matching' = IF front THEN <<Len(matching) + 1>> \o matching
                               ELSE Append(matching, Len(matching) + 1)
    /\ UNCHANGED <<requestVars, actions, timeout, checkSelector, exec>>

NextAction ==
    \/ ExecStart
    \/ RequiredSelector
    \/ WaitSettles
    \/ LocatorAll
    \/ ElementClick
    \/ PageClick
    \/ PagePdf
    \/ CallSettles
    \/ PageChanges

Next ==
    \E r \in Reqs :
        \/ Arrive(r)
        \/ Resume(r)
        \/ NewContext(r)
        \/ Route(r)
        \/ NewPage(r)
        \/ SetExtraHTTPHeaders(r)
        \/ PageGoto(r)
        \/ WaitForTimeout(r)
        \/ WaitForSelector(r)
        \/ PageContent(r)
        \/ AllHeaders(r)
        \/ ResponseBody(r)
        \/ ActionStep(r)
        \/ TopScreenshot(r)
        \/ PageClose(r)
        \/ ContextClose(r)

\* ------------------------------------------------- specifications
\* Admission: NumReq concurrent requests for a plain render (no extra
\* headers, delay, required selector, actions or screenshot) of a target
\* that answers with HTML, whose handlers never reach the steps left out
\* of NextAdmission.
NextAdmission ==
    \E r \in Reqs :
        \/ Arrive(r)
        \/ Resume(r)
        \/ NewContext(r)
        \/ Route(r)
        \/ NewPage(r)
        \/ PageGoto(r)
        \/ PageContent(r)
        \/ AllHeaders(r)
        \/ PageClose(r)
        \/ ContextClose(r)

InitAdmission ==
    /\ EngineReady
    /\ InitState(Reqs)
    /\ BLOCK_MEDIA = FALSE
    /\ targetStatus = 200
    /\ targetTypes = {"html"}
    /\ body = [r \in Reqs |-> PlainRequest]

SpecAdmission == InitAdmission /\ [][NextAdmission]_vars

\* One request, every step of its handler: every action list up to
\* MaxActs, with and without the other options.
RequestBodies ==
    {UrlModel("http://a/", o[1], IF o[1] THEN 1 ELSE 0, o[1], a, o[2], o[3]) :
        o \in {<<FALSE, FALSE, FALSE>>, <<TRUE, TRUE, FALSE>>,
                <<FALSE, FALSE, TRUE>>},
        a \in ActionLists(MaxActs)}

InitRequest ==
    /\ EngineReady
    /\ InitState({1})
    /\ BLOCK_MEDIA = TRUE
    /\ targetStatus = 200
    /\ targetTypes = {"html", "json"}
    /\ body \in {[r \in Reqs |-> IF r = 1 THEN b ELSE NoRequest] :
                    b \in RequestBodies}

SpecRequest == InitRequest /\ [][Next]_vars

\* Start-up: a request with a good or a bad URL and a health probe arrive
\* while the start-up hook's launch is pending or after it.
StartupBodies == {[PlainRequest EXCEPT !.url = u] : u \in {"", "nourl", "http://a/"}}

NextStartup ==
    \/ StartupHook
    \/ HealthArrive
    \/ HealthLaunch
    \/ HealthStep
    \/ \E r \in Reqs :
          \/ Arrive(r)
          \/ Launch(r)
          \/ Resume(r)
          \/ NewContext(r)
          \/ Route(r)
          \/ NewPage(r)
          \/ PageGoto(r)
          \/ PageContent(r)
          \/ AllHeaders(r)
          \/ ResponseBody(r)
          \/ PageClose(r)
          \/ ContextClose(r)

InitStartup ==
    /\ EngineStarting
    /\ InitState({1})
    /\ BLOCK_MEDIA = FALSE
    /\ targetStatus = 200
    /\ targetTypes = {"html", "json"}
    /\ body \in {[r \in Reqs |-> IF r = 1 THEN b ELSE NoRequest] :
                    b \in StartupBodies}

SpecStartup == InitStartup /\ [][NextStartup]_vars

\* Filter: one plain request, with and without media blocking, whose page
\* makes requests while it is open.
NextFilter ==
    \E r \in Reqs :
        \/ Arrive(r)
        \/ Resume(r)
        \/ NewContext(r)
        \/ Route(r)
        \/ NewPage(r)
        \/ Intercept(r)
        \/ PageGoto(r)
        \/ PageContent(r)
        \/ AllHeaders(r)
        \/ PageClose(r)
        \/ ContextClose(r)

InitFilter ==
    /\ EngineReady
    /\ InitState({1})
    /\ BLOCK_MEDIA \in BOOLEAN
    /\ targetStatus = 200
    /\ targetTypes = {"html"}
    /\ body = [r \in Reqs |-> IF r = 1 THEN PlainRequest ELSE NoRequest]

SpecFilter == InitFilter /\ [][NextFilter]_vars

\* Status: one request against a target that answers with any of
\* Statuses, with and without the other options, without and with an action.
Statuses == {200, 204, 304, 404, 503}

StatusBodies ==
    {UrlModel("http://a/", o[1], IF o[1] THEN 1 ELSE 0, o[1], a, o[2], o[3]) :
        o \in {<<FALSE, FALSE, FALSE>>, <<TRUE, TRUE, FALSE>>,
                <<FALSE, FALSE, TRUE>>},
        a \in {<<>>, <<Action("scrape")>>}}

InitStatus ==
    /\ EngineReady
    /\ InitState({1})
    /\ BLOCK_MEDIA = FALSE
    /\ targetStatus \in Statuses
    /\ targetTypes = {"html", "json", "plain", "none"}
    /\ body \in {[r \in Reqs |-> IF r = 1 THEN b ELSE NoRequest] :
                    b \in StatusBodies}

SpecStatus == InitStatus /\ [][Next]_vars

\* Pipeline: one request with every combination of extra headers,
\* post-load delay (negative, zero, positive), required selector and
\* top-level screenshot, with and without an action, against a target
\* answering 200 or 404.
PipelineBodies ==
    {UrlModel("http://a/", h, w, c, a, sc, FALSE) :
        h \in BOOLEAN, w \in {-1, 0, 1}, c \in BOOLEAN,
        a \in {<<>>, <<Action("scrape")>>}, sc \in BOOLEAN}

InitPipeline ==
    /\ EngineReady
    /\ InitState({1})
    /\ BLOCK_MEDIA = FALSE
    /\ targetStatus \in {200, 404}
    /\ targetTypes = {"html", "json"}
    /\ body \in {[r \in Reqs |-> IF r = 1 THEN b ELSE NoRequest] :
                    b \in PipelineBodies}

SpecPipeline == InitPipeline /\ [][Next]_vars

\* Interpreter: no request handler runs; scrapePage's required-selector
\* wait and executeActions run against one page, for every list of up to
\* MaxActs detailed actions, while the page may change.
InitAction ==
    /\ EngineReady
    /\ InitRequests({})
    /\ BLOCK_MEDIA = FALSE
    /\ targetStatus = 200
    /\ targetTypes = {"html"}
    /\ body = [r \in Reqs |-> NoRequest]
    /\ actions \in DetailedLists(MaxActs)
    /\ timeout \in Timeouts
    /\ checkSelector \in BOOLEAN
    /\ matching \in {<<>>, <<1, 2>>}
    /\ exec = ExecIdle

SpecAction == InitAction /\ [][NextAction]_vars

\* ------------------------------------------------------------ claims
\* The requests that have been admitted and have not released their permit.
Holders == {r \in Reqs : holds[r]}

\* The browsing sessions (context plus page) open in the browser.
OpenSessions == {r \in Reqs : contexts[r] = "open" /\ pages[r] = "open"}

\* r calls acquire() in this step.
CallsAcquire(r) == pc[r] = "idle" /\ pc'[r] \in {"acquired", "waiting"}

\* r calls release() in this step.
CallsRelease(r) == holds[r] /\ ~holds'[r]

\* C1: in every reachable state the number of requests admitted and not
\* yet released is at most the capacity MAX_CONCURRENT_PAGES.
C1_AdmittedWithinCapacity == Cardinality(Holders) <= MAX_CONCURRENT_PAGES

\* C1 witness: the capacity is used up and a caller is waiting.
C1_Witness == Cardinality(Holders) = MAX_CONCURRENT_PAGES /\ Len(queue) > 0

C2_Step ==
    \A r \in Reqs :
        /\ CallsAcquire(r) =>
              IF Cardinality(Holders) < MAX_CONCURRENT_PAGES
                  THEN pc'[r] = "acquired" /\ holds'[r] /\ queue' = queue
                  ELSE pc'[r] = "waiting" /\ ~holds'[r]
                       /\ queue' = Append(queue, r)
        /\ (pc[r] = "waiting" /\ pc'[r] \notin {"waiting", "crashed"}) =>
              /\ \E h \in Holders : CallsRelease(h)
              /\ Head(queue) = r
              /\ holds'[r]
        /\ (CallsRelease(r) /\ Len(queue) > 0) =>
              pc'[Head(queue)] = "woken"

C3_Step ==
    /\ queue' # queue =>
          \/ \E r \in Reqs : CallsAcquire(r) /\ queue' = Append(queue, r)
          \/ /\ Len(queue) > 0
             /\ queue' = Tail(queue)
             /\ pc'[Head(queue)] = "woken"
             /\ holds'[Head(queue)]
             /\ permits' = permits
    /\ \A r \in Reqs :
          /\ (CallsRelease(r) /\ Len(queue) > 0) => queue' = Tail(queue)
          /\ (CallsAcquire(r) /\ Len(queue) > 0) =>
                pc'[r] = "waiting" /\ queue' = Append(queue, r)

\* C3: release() with waiters hands the permit to the first of the queue
\* without returning it to the pool; the queue only grows at its tail and
\* shrinks at its head, so waiters are admitted in the order of their
\* acquire() calls, and a caller arriving while others wait (also after the
\* release and before the woken waiter resumes) queues behind them.
C3_FifoHandOff == [][C3_Step]_vars

\* C3 witness: a waiter has been woken and has not resumed, and another
\* caller is queued behind it.
C3_Witness == \E r \in Reqs : pc[r] = "woken" /\ Len(queue) > 0

\* C4 (as a property a finite run refutes): once the handler of every
\* admitted request has ended, no caller is left in the queue, where
\* nothing would ever admit it.
C4_NoCallerStranded ==
    (\A r \in Reqs : pc[r] \in {"idle", "absent", "waiting", "done"})
        => queue = <<>>

\* C5: for every admitted request whose fault, if any, lies between
\* session open and close (no teardown step faulted), once its handler has
\* ended every context and page created for it is closed and its permit is
\* released.
C5_SessionClosedPermitReleased ==
    \A r \in Reqs :
        (pc[r] = "done" /\ res[r].status \in {200, 500} /\ ~tdFault[r]) =>
            /\ contexts[r] # "open"
            /\ pages[r] # "open"
            /\ ~holds[r]

\* C6: whenever no request is in flight the available permit count is
\* MAX_CONCURRENT_PAGES, whatever faulted, teardown steps included.
C6_NoPermitLeaked ==
    (\A r \in Reqs : pc[r] \in {"idle", "absent", "done"})
        => permits = MAX_CONCURRENT_PAGES

\* C7 as stated: the outstanding permits equal the open browsing sessions.
C7_OutstandingEqualsSessions ==
    MAX_CONCURRENT_PAGES - permits = Cardinality(OpenSessions)

\* C7 amended: every open browsing session of a /scrape request belongs
\* to a request holding a permit, and the outstanding permits are exactly
\* the permits held; so the open sessions never exceed the outstanding
\* permits.
C7_SessionsWithinOutstanding ==
    /\ OpenSessions \subseteq Holders
    /\ Cardinality(Holders) = MAX_CONCURRENT_PAGES - permits

\* C7 witness: a session is open under an outstanding permit.
C7_Witness ==
    /\ Cardinality(OpenSessions) = 1
    /\ MAX_CONCURRENT_PAGES - permits = 1

Producing(a) == a.type \in {"screenshot", "scrape", "executeJavascript", "pdf"}

SeqOf(ar, a) ==
    CASE a.type = "screenshot" -> ar.screenshots
      [] a.type = "scrape" -> ar.scrapes
      [] a.type = "executeJavascript" -> ar.javascriptReturns
      [] a.type = "pdf" -> ar.pdfs
      [] OTHER -> <<>>

\* The result of action k is in the sequence of its variant.
Recorded(ar, a, k) == \E n \in 1..Len(SeqOf(ar, a)) : SeqOf(ar, a)[n].by = k

Began(r, k) == \E n \in 1..Len(trace[r]) : trace[r][n] = <<"begin", k>>

Ended(r, k) == \E n \in 1..Len(trace[r]) : trace[r][n] = <<"end", k>>

\* executeActions was called for r and has returned.
ActionsReturned(r) ==
    /\ Len(body[r].actions) > 0
    /\ pc[r] \in {"screenshot", "page.close", "context.close", "done"}
    /\ fault[r] \in {"none", "capture"}
    /\ res[r].status # 400

\* The result sequences of r as far as they can still be observed: the
\* handler's, and after its end those of the success response.
Results(r) ==
    IF actionResults[r] # <<>> THEN actionResults[r][1]
    ELSE IF res[r].actions # <<>> THEN res[r].actions[1]
    ELSE EmptyResults

ResultsVisible(r) == pc[r] \notin {"done", "crashed"} \/ res[r].status = 200

\* C8: a faulting action is only logged: once executeActions has returned
\* every action of the list has been executed, every action that completed
\* without fault has its result recorded, and an error response is never due
\* to an action (only to the top-level capture that follows).
C8_FailureIsolation ==
    \A r \in Reqs :
        LET acts == body[r].actions
        IN  /\ ActionsReturned(r) =>
                  /\ \A k \in 1..Len(acts) : Began(r, k) /\ Ended(r, k)
                  /\ res[r].status = 500 => fault[r] = "capture"
                  /\ (pc[r] = "done" /\ fault[r] = "none") => res[r].status = 200
            /\ ResultsVisible(r) =>
                  \A k \in 1..Len(acts) :
                      (Ended(r, k) /\ Producing(acts[k]) /\ k \notin faulted[r])
                          => Recorded(Results(r), acts[k], k)

\* C8 witness: an action faulted, a later one left its result, and the
\* request was answered with success.
C8_Witness ==
    \E r \in Reqs :
        /\ res[r].status = 200
        /\ res[r].actions # <<>>
        /\ \E k \in faulted[r] :
              \E j \in (k + 1)..Len(body[r].actions) :
                  Recorded(res[r].actions[1], body[r].actions[j], j)

\* The events of n actions run one after the other.
InOrder(n) ==
    [m \in 1..(2 * n) |->
        IF m % 2 = 1 THEN <<"begin", (m + 1) \div 2>> ELSE <<"end", m \div 2>>]

IsPrefix(s, t) == Len(s) <= Len(t) /\ \A n \in 1..Len(s) : s[n] = t[n]

\* C9: the actions begin in list order, each once, each after the one
\* before it has completed or faulted, never two in progress at once; once
\* executeActions has returned every action has begun and ended.
C9_StrictlySequential ==
    \A r \in Reqs :
        LET n == Len(body[r].actions)
        IN  /\ IsPrefix(trace[r], InOrder(n))
            /\ pc[r] = "action" =>
                  /\ Len(trace[r]) = 2 * i[r] - 1
                  /\ trace[r][Len(trace[r])] = <<"begin", i[r]>>
            /\ ActionsReturned(r) => Len(trace[r]) = 2 * n

\* C9 witness: the second action is in progress after the first ended.
C9_Witness ==
    \E r \in Reqs :
        /\ pc[r] = "action"
        /\ i[r] = 2
        /\ trace[r] = <<<<"begin", 1>>, <<"end", 1>>, <<"begin", 2>>>>

\* The results of actions appear in the order of the actions.
Ordered(seq) ==
    \A m, n \in 1..Len(seq) :
        (m < n /\ seq[m].by >= 1 /\ seq[n].by >= 1) => seq[m].by < seq[n].by

\* C10: in each of the four result sequences, in the handler and in the
\* response, the result of action i precedes the result of action j
\* whenever i < j.
C10_ResultsInExecutionOrder ==
    \A r \in Reqs :
        /\ Ordered(Results(r).screenshots)
        /\ Ordered(Results(r).scrapes)
        /\ Ordered(Results(r).javascriptReturns)
        /\ Ordered(Results(r).pdfs)

\* C10 witness: two actions of one variant have both left a result.
C10_Witness ==
    \E r \in Reqs :
        /\ actionResults[r] # <<>>
        /\ Len(actionResults[r][1].scrapes) = 2

Fields == {"screenshots", "scrapes", "javascriptReturns", "pdfs"}

\* The result sequence an action of this variant pushes to, if any.
VariantField(a) ==
    CASE a.type = "screenshot" -> "screenshots"
      [] a.type = "scrape" -> "scrapes"
      [] a.type = "executeJavascript" -> "javascriptReturns"
      [] a.type = "pdf" -> "pdfs"
      [] OTHER -> "none"

\* Every result of an action lies in the sequence of that action's
\* variant, once, and comes from an action that did not fault.
C11_OwnVariantOnly ==
    \A r \in Reqs : \A f \in Fields :
        LET seq == Results(r)[f]
        IN  \A n \in 1..Len(seq) :
                seq[n].by >= 1 =>
                    /\ seq[n].by <= Len(body[r].actions)
                    /\ VariantField(body[r].actions[seq[n].by]) = f
                    /\ seq[n].by \notin faulted[r]
                    /\ \A m \in 1..Len(seq) : seq[m].by = seq[n].by => m = n

\* The step in which the awaited call of r's action in progress settles.
C11_Step ==
    \A r \in Reqs :
        (pc[r] = "action" /\ trace'[r] # trace[r]) =>
            LET a == body[r].actions[i[r]]
                old == actionResults[r][1]
                new == actionResults'[r][1]
            IN  \A f \in Fields :
                    IF VariantField(a) = f /\ i[r] \notin faulted'[r]
                        THEN new[f] = Append(old[f], [by |-> i[r]])
                        ELSE new[f] = old[f]

\* C11: an action that completes appends exactly one element to the
\* sequence of its own variant (screenshot, scrape, executeJavascript, pdf)
\* and leaves the other three unchanged; wait, click, write, press, scroll,
\* an unknown variant and any action that faults leave all four unchanged.
C11_FrameOfAction == [][C11_Step /\ C11_OwnVariantOnly']_vars

\* C11 witness: a screenshot action faulted and a scrape action completed:
\* only scrapes has an element.
C11_Witness ==
    \E r \in Reqs :
        /\ actionResults[r] # <<>>
        /\ body[r].actions = <<Action("screenshot"), Action("scrape")>>
        /\ faulted[r] = {1}
        /\ actionResults[r][1] = [EmptyResults EXCEPT !.scrapes = <<[by |-> 2]>>]

TopRequested(r) == body[r].screenshot \/ body[r].full_page_screenshot

\* The screenshot actions of r that completed.
ShotsTaken(r) ==
    {k \in 1..Len(body[r].actions) :
        body[r].actions[k].type = "screenshot" /\ k \notin faulted[r]}

\* C12: when the top-level screenshot is requested and k >= 1 screenshot
\* actions succeed, the response's actions.screenshots has k + 1 elements:
\* the top-level screenshot (the response's screenshot field) first, then
\* the action screenshots in execution order.
C12_TopThenActionShots ==
    \A r \in Reqs :
        (res[r].status = 200 /\ TopRequested(r) /\ ShotsTaken(r) # {}) =>
            /\ res[r].actions # <<>>
            /\ res[r].screenshot # <<>>
            /\ LET shots == res[r].actions[1].screenshots
               IN  /\ Len(shots) = Cardinality(ShotsTaken(r)) + 1
                   /\ shots[1] = res[r].screenshot[1]
                   /\ shots[1].by = 0
                   /\ \A n \in 2..Len(shots) :
                         /\ shots[n].by \in ShotsTaken(r)
                         /\ n > 2 => shots[n - 1].by < shots[n].by

\* C12 witness: two screenshot actions and the top-level screenshot.
C12_Witness ==
    \E r \in Reqs :
        /\ res[r].status = 200
        /\ res[r].actions # <<>>
        /\ res[r].actions[1].screenshots = <<[by |-> 0], [by |-> 1], [by |-> 2]>>

\* C13: whenever the top-level screenshot is requested, whatever the
\* action list, the top-level screenshot is the first element of the
\* response's actions.screenshots.
C13_TopScreenshotAlwaysFirst ==
    \A r \in Reqs :
        (res[r].status = 200 /\ TopRequested(r)) =>
            /\ res[r].actions # <<>>
            /\ Len(res[r].actions[1].screenshots) >= 1
            /\ res[r].actions[1].screenshots[1] = res[r].screenshot[1]

\* The result sequences the handler holds when it answers are non-empty.
SomeOutput(r) ==
    \/ \E k \in 1..Len(body[r].actions) :
          VariantField(body[r].actions[k]) \in Fields /\ k \notin faulted[r]
    \/ TopRequested(r) /\ Len(body[r].actions) = 0

\* C14: the success response has the actions field exactly when one of
\* the four result sequences is non-empty, and the field then carries the
\* four sequences as the handler holds them.
C14_ActionsFieldIffOutput ==
    \A r \in Reqs :
        res[r].status = 200 =>
            /\ res[r].actions # <<>> <=> SomeOutput(r)
            /\ res[r].actions # <<>> => DOMAIN res[r].actions[1] = Fields
            /\ pc[r] \in {"page.close", "context.close"} =>
                  /\ res[r].actions # <<>> <=>
                        /\ actionResults[r] # <<>>
                        /\ \E f \in Fields : Len(actionResults[r][1][f]) > 0
                  /\ res[r].actions # <<>> => res[r].actions = actionResults[r]

\* C14 witness: the response carries actions whose screenshots are empty
\* and whose scrapes are not.
C14_Witness ==
    \E r \in Reqs :
        /\ res[r].status = 200
        /\ res[r].actions # <<>>
        /\ res[r].actions[1].screenshots = <<>>
        /\ Len(res[r].actions[1].scrapes) > 0

\* C15: when page.goto times out or faults, the request is answered with
\* the success Response, its status code null and its page error set.
C15_NavigationFaultStructured ==
    \A r \in Reqs :
        fault[r] = "goto" =>
            /\ res[r].status = 200
            /\ res[r].pageStatusCode = << <<>> >>
            /\ res[r].pageError # <<>>

\* C16: when the required selector does not appear, nothing is extracted,
\* no action and no top-level screenshot is executed, the caller gets an
\* error response, and once the handler has ended the session is closed
\* and the permit released.
C16_SelectorAbsentFailsRender ==
    \A r \in Reqs :
        fault[r] = "selector" =>
            /\ res[r].status = 500
            /\ result[r] = <<>>
            /\ trace[r] = <<>>
            /\ actionResults[r] = <<>>
            /\ screenshotData[r] = <<>>
            /\ pc[r] = "done" =>
                  /\ pages[r] = "closed"
                  /\ contexts[r] = "closed"
                  /\ ~holds[r]
                  /\ permits = MAX_CONCURRENT_PAGES

\* C17: a status other than 200 never fails the request: without a fault
\* of a browser call the answer is the success response, which carries the
\* status the target answered with (null without a response) and the
\* classification of that status and of nothing else.
C17_StatusIsAdvisory ==
    \A r \in Reqs :
        /\ res[r].status = 500 => fault[r] # "none"
        /\ (pc[r] = "done" /\ fault[r] = "none" /\ isValidUrl(body[r].url))
              => res[r].status = 200
        /\ res[r].status = 200 =>
              /\ Len(res[r].pageStatusCode) = 1
              /\ res[r].pageStatusCode[1] \in {<<>>, <<targetStatus>>}
              /\ res[r].pageError =
                    IF res[r].pageStatusCode[1] = <<200>>
                        THEN <<>>
                        ELSE getError(res[r].pageStatusCode[1])

\* C17 witness: the target answered 404 and the request succeeded, with
\* the status and its classification in the response.
C17_Witness ==
    \E r \in Reqs :
        /\ res[r].status = 200
        /\ res[r].pageStatusCode = << <<404>> >>
        /\ res[r].pageError = <<"client">>

\* r's URL is missing or is no absolute URL.
BadUrl(r) == body[r].url \in {"", "nourl"}

\* C18: a request whose URL is missing or is no valid absolute URL is
\* answered 400 in the step it arrives in, which starts no engine, takes
\* and queues for no permit, creates no context and no page and leaves
\* the semaphore as it was; such a request never gets any further.
C18_Step ==
    \A r \in Reqs :
        /\ (BadUrl(r) /\ pc[r] = "idle" /\ pc'[r] \notin {"idle", "crashed"}) =>
              /\ pc'[r] = "done"
              /\ res'[r].status = 400
              /\ UNCHANGED <<permits, queue, holds, browser, engines, contexts,
                             pages, hook, health>>
        /\ BadUrl(r) => pc'[r] \in {"idle", "absent", "done", "crashed"}
        /\ res'[r].status = 400 => BadUrl(r)

C18_BadUrlRejectedFirst == [][C18_Step]_vars

\* C18 witness: a request was answered 400 while no engine had been
\* started yet, and none was started for it.
C18_Witness ==
    \E r \in Reqs :
        /\ res[r].status = 400
        /\ body[r].url = "nourl"
        /\ browser = 0
        /\ engines = 0
        /\ permits = MAX_CONCURRENT_PAGES

\* C19: at most one browser engine is ever launched.
C19_SingleFlight == engines <= 1

\* C20: a request during which the engine failed to start is answered
\* with a 5xx response.
C20_StartFailureAnswered5xx ==
    \A r \in Reqs :
        fault[r] = "launch" => res[r].status \in 500..599

\* A capture (a screenshot or a PDF) faulted while serving r: the
\* top-level screenshot, or a screenshot or pdf action.
CaptureFaulted(r) ==
    \/ fault[r] = "capture"
    \/ \E k \in faulted[r] : body[r].actions[k].type \in {"screenshot", "pdf"}

\* C21: a capture fault, in the top-level screenshot or in a screenshot or
\* pdf action, fails the whole render: the request is answered with the
\* error response.
C21_CaptureFaultIsHard ==
    \A r \in Reqs :
        (CaptureFaulted(r) /\ res[r].status # 0) => res[r].status = 500

\* C29: the response is delivered only after the session has been torn
\* down and the permit released.
C29_RespondAfterTeardown ==
    \A r \in Reqs :
        res[r].status \in {200, 500} =>
            /\ pc[r] \notin {"page.close", "context.close"}
            /\ ~holds[r]

\* From this state to the next, the sequence f of r's results only grows
\* at its end.
OnlyAppended(r, f) ==
    (actionResults[r] # <<>> /\ actionResults'[r] # <<>>) =>
        IsPrefix(actionResults[r][1][f], actionResults'[r][1][f])

\* The response just sent carries the sequences as the handler holds them.
SentAsHeld(r) ==
    (res[r].status = 0 /\ res'[r].status = 200 /\ res'[r].actions # <<>>) =>
        res'[r].actions = actionResults'[r]

\* C30 as stated: up to and including the response, an element once
\* inserted keeps its position and nothing is inserted before it.
C30_AppendOnly ==
    [][\A r \in Reqs : SentAsHeld(r) /\ \A f \in Fields : OnlyAppended(r, f)]_vars

\* The step of r's handler that inserts the top-level screenshot at the
\* front of the action screenshots.
TopInserted(r) ==
    /\ pc[r] = "screenshot"
    /\ actionResults[r] # <<>>
    /\ actionResults'[r] # <<>>
    /\ Len(actionResults[r][1].screenshots) > 0
    /\ actionResults'[r][1].screenshots =
          <<[by |-> 0]>> \o actionResults[r][1].screenshots

\* C30 amended: scrapes, javascriptReturns and pdfs only ever grow at their
\* end; so does screenshots, except for the one step after the action list
\* that puts the top-level screenshot in front of the action screenshots,
\* moving each of them one position back with value and order unchanged;
\* the response carries the sequences as they then are.
C30_AppendOnlyButTopScreenshot ==
    [][\A r \in Reqs :
          /\ SentAsHeld(r)
          /\ \A f \in Fields \ {"screenshots"} : OnlyAppended(r, f)
          /\ OnlyAppended(r, "screenshots") \/ TopInserted(r)]_vars

\* C30 witness: the top-level screenshot stands in front of a screenshot
\* an action had appended before.
C30_Witness ==
    \E r \in Reqs :
        /\ actionResults[r] # <<>>
        /\ actionResults[r][1].screenshots = <<[by |-> 0], [by |-> 1]>>
        /\ Len(actionResults[r][1].scrapes) = 1

\* C22: every request is answered, with the success response, 400 or a
\* 5xx failure, and no fault of a browser call leaves its handler
\* unhandled.
C22_AnsweredNothingEscapes ==
    \A r \in Reqs :
        /\ ~tdFault[r]
        /\ fault[r] = "launch" => res[r].status = 500
        /\ pc[r] = "done" => res[r].status \in {200, 400, 500}

\* C26: the content of the success response is the raw response body
\* when the response's content type contains application/json or
\* text/plain, and the rendered HTML of the page for every other content
\* type, without content-type header and without response object.
C26_ContentByContentType ==
    \A r \in Reqs :
        res[r].status = 200 =>
            res[r].content =
                IF res[r].contentType \in {<<"json">>, <<"plain">>}
                    THEN <<"raw">>
                    ELSE <<"rendered">>

\* C26 witness: a text/plain response answered with its raw body.
C26_Witness ==
    \E r \in Reqs :
        /\ res[r].status = 200
        /\ res[r].contentType = <<"plain">>
        /\ res[r].content = <<"raw">>

DenyListed ==
    {<<"ads.", "doubleclick.net">>, <<"doubleclick.net", ".evil.org">>,
     <<"amazon-", "adsystem.com">>}

\* C23: a request of a session's page is aborted if its hostname contains
\* an entry of the deny-list and continues otherwise; without media
\* blocking it is aborted exactly when the hostname matches.
C23_DenyListDecides ==
    intercepted # <<>> =>
        LET q == intercepted[1].request
        IN  ~q.malformed =>
                intercepted[1].outcome =
                    IF q.host \in DenyListed THEN "abort" ELSE "continue"

\* C23 witness: without media blocking, a request to a host that has a
\* deny-list entry inside its name was aborted.
C23_Witness ==
    /\ ~BLOCK_MEDIA
    /\ intercepted # <<>>
    /\ intercepted[1].request.host = <<"doubleclick.net", ".evil.org">>
    /\ intercepted[1].outcome = "abort"

\* C24: with media blocking on, every request for a media extension is
\* aborted; with it off, none is aborted for being media.
C24_MediaAbortedWhenBlocking ==
    intercepted # <<>> =>
        LET q == intercepted[1].request
        IN  /\ (BLOCK_MEDIA /\ q.ext \in MediaExts) =>
                  intercepted[1].outcome = "abort"
            /\ (~BLOCK_MEDIA /\ intercepted[1].outcome = "abort") =>
                  q.host \in DenyListed

\* C25: the filter decides every request, a malformed one included, by
\* allow or abort, and allows the malformed one.
C25_FilterTotal ==
    intercepted # <<>> =>
        /\ intercepted[1].outcome \in {"abort", "continue"}
        /\ intercepted[1].request.malformed =>
              intercepted[1].outcome = "continue"

\* The /scrape requests admitted and still being served.
InFlight == {r \in Reqs : holds[r] /\ pc[r] \notin {"done", "crashed"}}

\* C28: the health probe answers healthy only after its throwaway session
\* was opened and closed, with an active count in 0..N; a failed probe
\* answers 503; and while the process lives, N minus the available
\* permits (the count the probe reports) is the number of /scrape
\* requests currently admitted.
C28_HealthReportsAdmitted ==
    /\ health.status \in {0, 200, 503}
    /\ health.status = 200 =>
          /\ health.context = "closed" /\ health.page = "closed"
          /\ health.activePages \in 0..MAX_CONCURRENT_PAGES
    /\ hook # "crashed" =>
          MAX_CONCURRENT_PAGES - getAvailablePermits = Cardinality(InFlight)

\* C37: between operations the available permits lie in 0..N, and no
\* permit is free while a caller waits in the queue.
C37_SemaphoreInvariant ==
    /\ getAvailablePermits \in 0..MAX_CONCURRENT_PAGES
    /\ getQueueLength > 0 => getAvailablePermits = 0

\* C37 witness: a release has handed its permit to the first of two
\* waiters; the second still waits and no permit is free.
C37_Witness ==
    /\ getQueueLength > 0
    /\ getAvailablePermits = 0
    /\ \E r \in Reqs : pc[r] = "done" /\ ~holds[r] /\ res[r].status = 200

\* C38: every success response of /scrape is accepted by the schema of
\* scrapeURLWithPlaywright, the one sent after a navigation without
\* response object included.
C38_SuccessAcceptedBySchema ==
    \A r \in Reqs : res[r].status = 200 => schema(res[r])

\* A step of the navigation pipeline begins only after the step before it
\* has completed without fault.  pc names the browser call a handler
\* awaits; it changes to the next call when the awaited one resolved.
C35_Step ==
    \A r \in Reqs :
        LET b == body[r]
            delayed == b.wait_after_load > 0
        IN  pc'[r] # pc[r] =>
              /\ pc'[r] = "setExtraHTTPHeaders" =>
                    pc[r] = "newPage" /\ b.headers
              /\ pc'[r] = "goto" =>
                    pc[r] = IF b.headers THEN "setExtraHTTPHeaders"
                                         ELSE "newPage"
              /\ pc'[r] = "waitForTimeout" => pc[r] = "goto" /\ delayed
              /\ pc'[r] = "waitForSelector" =>
                    /\ b.check_selector
                    /\ pc[r] = IF delayed THEN "waitForTimeout" ELSE "goto"
              /\ pc'[r] = "content" =>
                    pc[r] = IF b.check_selector THEN "waitForSelector"
                            ELSE IF delayed THEN "waitForTimeout"
                            ELSE "goto"

\* C35: the navigation pipeline runs in a fixed order: extra headers
\* before navigation, navigation before the post-load delay, the delay
\* exactly when it is greater than 0, the required-selector wait after
\* the delay, and content extraction only after all of them succeeded.
C35_PipelineOrder == [][C35_Step]_vars

\* C35 witness: with headers, a delay and a required selector, the
\* handler has come to content extraction.
C35_Witness ==
    \E r \in Reqs :
        /\ pc[r] = "content"
        /\ body[r].headers
        /\ body[r].wait_after_load > 0
        /\ body[r].check_selector

\* The handler of r has ended after its session was opened.
Served(r) ==
    /\ pc[r] = "done"
    /\ res[r].status \in {200, 500}
    /\ fault[r] \notin {"launch", "open"}

\* Every action of r's list has been executed.
AllActionsRan(r) == Len(trace[r]) = 2 * Len(body[r].actions)

\* The top-level screenshot of r was captured, or its capture faulted.
TopShotRan(r) == fault[r] = "capture" \/ res[r].screenshot # <<>>

\* The action list (when there is one) and the top-level screenshot (when
\* requested) of a served request were executed exactly when its fault
\* class is in ok; the top-level screenshot never precedes an action.
ExecutedIff(ok) ==
    \A r \in Reqs :
        /\ Served(r) =>
              /\ Len(body[r].actions) > 0 =>
                    /\ AllActionsRan(r) <=> fault[r] \in ok
                    /\ fault[r] \notin ok => trace[r] = <<>>
              /\ TopRequested(r) => (TopShotRan(r) <=> fault[r] \in ok)
        /\ (pc[r] = "screenshot" \/ TopShotRan(r)) => AllActionsRan(r)

\* C40 as stated: the action list and the top-level screenshot are
\* executed if and only if page.goto and the required-selector wait
\* raised no fault, whatever the page status; the top-level screenshot is
\* captured after every action of the list.
C40_ExecutedIffNavigated ==
    ExecutedIff({"none", "capture", "delay", "extract"})

\* C40 amended: the action list and the top-level screenshot are executed
\* if and only if scrapePage returned, that is, page.goto, the post-load
\* delay, the required-selector wait and the content extraction raised no
\* fault, whatever the page status; the top-level screenshot is captured
\* after every action of the list.
C40_ExecutedIffScraped == ExecutedIff({"none", "capture"})

\* C40 witness: after a navigation without response object (null
\* status), with a required selector, the action ran and the top-level
\* screenshot was captured after it.
C40_Witness ==
    \E r \in Reqs :
        /\ Served(r)
        /\ body[r].check_selector
        /\ res[r].pageStatusCode = << <<>> >>
        /\ Len(body[r].actions) > 0 /\ AllActionsRan(r)
        /\ res[r].screenshot # <<>>

\* The positions of r's list whose tag is none of the nine known ones.
UnknownAt(r) ==
    {k \in 1..Len(body[r].actions) : body[r].actions[k].type \notin KnownKinds}

\* C31: an action with an unknown tag is skipped: no page operation is
\* awaited for it, it leaves no result and raises no fault, and the
\* actions after it are executed.
C31_UnknownSkipped ==
    \A r \in Reqs :
        /\ pc[r] = "action" => i[r] \notin UnknownAt(r)
        /\ faulted[r] \cap UnknownAt(r) = {}
        /\ \A f \in Fields :
              \A n \in 1..Len(Results(r)[f]) :
                  Results(r)[f][n].by \notin UnknownAt(r)
        /\ ActionsReturned(r) => AllActionsRan(r)
        /\ \A k \in UnknownAt(r) :
              \A n \in 1..Len(trace[r]) :
                  (trace[r][n] = <<"begin", k>> /\ n < Len(trace[r])) =>
                      trace[r][n + 1] = <<"end", k>>

\* C31 witness: an unknown action was skipped and the scrape after it
\* left its result.
C31_Witness ==
    \E r \in Reqs :
        /\ UnknownAt(r) = {1}
        /\ res[r].status = 200
        /\ res[r].actions # <<>>
        /\ res[r].actions[1].scrapes = <<[by |-> 2]>>

\* The positions in the operation log of the calls made by action k.
OpsBy(k) == {j \in 1..Len(exec.ops) : exec.ops[j].by = k}

\* The interpreter has dispatched action k.
Begun(k) ==
    /\ exec.at \notin {"idle", "checkSelector", "failed"}
    /\ k \in 1..Len(actions)
    /\ k <= exec.k

\* The interpreter has left action k.
Left(k) == Begun(k) /\ k < exec.k

\* The clicks of action k that were performed.
ClicksOf(k) ==
    {j \in OpsBy(k) : exec.ops[j].op = "element.click"
                          /\ exec.ops[j].element # 0}

\* C32: a click action with all set snapshots the matching elements
\* once: it queries the match set once, clicks only elements of the
\* snapshot (never one that appeared later), and performs exactly n
\* clicks when no click faults.
C32_ClicksTheSnapshot ==
    \A m \in 1..Len(exec.snapshots) :
        LET snap == exec.snapshots[m]
            k == snap.by
        IN  /\ Cardinality({j \in OpsBy(k) :
                                exec.ops[j].op = "locator.all"}) = 1
            /\ \A j \in ClicksOf(k) :
                  \E n \in 1..snap.n : exec.ops[j].element = snap.ids[n]
            /\ (Left(k) /\ k \notin exec.caught) =>
                  Cardinality(ClicksOf(k)) = snap.n

\* The snapshot taken by action k.
SnapshotOf(k) ==
    CHOOSE snap \in {exec.snapshots[m] : m \in 1..Len(exec.snapshots)} :
        snap.by = k

\* Action k makes a page call.
HasCall(k) ==
    /\ actions[k].type \in KnownKinds
    /\ actions[k].type = "wait" =>
          (actions[k].milliseconds # <<>> \/ actions[k].selector # <<>>)

\* C39: a fault at the i-th click of a click action with all set ends
\* the action: the faulted click is the i-th call of at most n, no later
\* click of that action is made, and the next actions are executed.
C39_ClickFaultEndsAction ==
    \A j \in exec.rejected :
        exec.ops[j].op = "element.click" =>
            LET k == exec.ops[j].by
            IN  /\ \A m \in OpsBy(k) : m <= j
                /\ Cardinality({m \in OpsBy(k) :
                                    exec.ops[m].op = "element.click"})
                       <= SnapshotOf(k).n
                /\ Left(k)
                /\ exec.at = "returned" =>
                      \A k2 \in (k + 1)..Len(actions) :
                          HasCall(k2) => OpsBy(k2) # {}

\* C39 witness: the first of at least two clicks faulted, the action made
\* no other click, and the action after it made its call.
C39_Witness ==
    \E j \in exec.rejected :
        /\ exec.ops[j].op = "element.click"
        /\ SnapshotOf(exec.ops[j].by).n >= 2
        /\ Cardinality(OpsBy(exec.ops[j].by)) = 2
        /\ exec.at = "returned"
        /\ OpsBy(exec.ops[j].by + 1) # {}

\* C33: a wait action pauses for its milliseconds when they are given
\* (a warning is recorded when a selector is given too, and the selector
\* is not waited for), waits for its selector only when milliseconds is
\* absent, and makes no call and raises no fault when neither is given.
C33_WaitVariants ==
    \A k \in 1..Len(actions) :
        (Begun(k) /\ actions[k].type = "wait") =>
            LET a == actions[k]
                calls == {exec.ops[j] : j \in OpsBy(k)}
            IN  /\ Cardinality(OpsBy(k)) <= 1
                /\ a.milliseconds # <<>> =>
                      /\ \E c \in calls : /\ c.op = "waitForTimeout"
                                            /\ c.ms = a.milliseconds
                      /\ a.selector # <<>> => <<k, "both">> \in
                            {exec.warned[n] : n \in 1..Len(exec.warned)}
                /\ (a.milliseconds = <<>> /\ a.selector # <<>>) =>
                      \E c \in calls : c.op = "waitForSelector"
                /\ (a.milliseconds = <<>> /\ a.selector = <<>>) =>
                      calls = {} /\ k \notin exec.caught

\* C33 witness: a wait with milliseconds and selector paused for the
\* milliseconds, with the warning recorded.
C33_Witness ==
    /\ exec.at = "returned"
    /\ Len(actions) = 1
    /\ actions[1] = WaitAction(<<100>>, <<"sel">>)
    /\ exec.ops[Len(exec.ops)].op = "waitForTimeout"
    /\ exec.ops[Len(exec.ops)].ms = <<100>>
    /\ exec.warned = << <<1, "both">> >>

\* C34: the options of every page.pdf call carry a format, the action's
\* or Letter, and landscape and scale exactly when the action gives
\* them, with the given value.
C34_PdfOptions ==
    \A j \in 1..Len(exec.ops) :
        exec.ops[j].op = "page.pdf" =>
            LET a == actions[exec.ops[j].by]
                o == exec.ops[j].options[1]
            IN  /\ Len(o.format) = 1
                /\ o.format = IF a.format = <<>> THEN <<"Letter">>
                                                 ELSE a.format
                /\ o.landscape = a.landscape
                /\ o.scale = a.scale

\* C34 witness: a pdf action giving only a scale called page.pdf with
\* format Letter, that scale and no landscape.
C34_Witness ==
    \E j \in 1..Len(exec.ops) :
        /\ exec.ops[j].op = "page.pdf"
        /\ exec.ops[j].options =
              <<[landscape |-> <<>>, scale |-> <<2>>, format |-> <<"Letter">>]>>

\* C36: every selector wait, the required-selector wait of scrapePage and
\* the wait action's, is bounded by the timeout of the request.
C36_SelectorWaitsUseRequestTimeout ==
    \A j \in 1..Len(exec.ops) :
        exec.ops[j].op = "waitForSelector" =>
            exec.ops[j].timeout = <<timeout>>
====
